---- MODULE Spec2Model ----
(***************************************************************************)
(* Model of discord-backup.py: the monthly window calculator               *)
(* (parse_month, generate_months_to_backup), the completion ledger         *)
(* (MonthlyBackupTracker and its metadata.json backing store), and the     *)
(* source scheduler (CommandRunner.export / CommandRunner._export_month).  *)
(*                                                                         *)
(* Month strings "YYYY-MM" are sequences of character codes relative to    *)
(* the character '0' (so '0'..'9' are 0..9 and '-' is -3): formatting,     *)
(* parsing, membership and list.sort() work on these strings as in Python. *)
(* Timestamps are counted in ticks; TicksPerHour ticks make one hour. The   *)
(* ISO strings of export (isoformat, '+00:00' replaced by 'Z', parsed back *)
(* by datetime.fromisoformat, which accepts 'Z' from Python 3.11 on) carry *)
(* the instant unchanged, so a timestamp is kept as its tick count.        *)
(*                                                                         *)
(* The wall clock is read at the throttle check (now_timestamp) and at the *)
(* enumeration (get_current_month) of each guild; Tick lets time pass      *)
(* before each of these reads, while the exporter runs and between         *)
(* processes. metadata.json holds the two dictionaries as json.dump writes *)
(* them (the members of a JSON object); a tracker reads them back with     *)
(* json.load. Guild ids are distinct, as are guild names.                  *)
(* The environment may fail a write of                                     *)
(* metadata.json, a marker write or a directory creation (at most          *)
(* MaxFaults times), fail any exporter call, and kill the process (at most *)
(* MaxKills times).                                                        *)
(***************************************************************************)
EXTENDS Integers, Sequences, FiniteSets, TLC

\* ---------------------------------------------------------------- bounds
FirstYear == 2023
MaxRuns == 2
MaxKills == 1
MaxFaults == 1
MaxTick == 2
MaxCalls == 2
LedgerSpan == 2
MaxMonthAdvance == 1
GenSpan == 5
BoundYears == 2
TicksPerHour == 2

\* ------------------------------------------------------ strings "YYYY-MM"
Dash == 0 - 3

\* f"{year:04d}-{month:02d}"
MonthStr(year, month) ==
    << (year \div 1000) % 10, (year \div 100) % 10, (year \div 10) % 10, year % 10,
       Dash, month \div 10, month % 10 >>

\* int() of a string of decimal digits
RECURSIVE IntOf(_)
IntOf(s) == IF s = << >> THEN 0 ELSE 10 * IntOf(SubSeq(s, 1, Len(s) - 1)) + s[Len(s)]

\* position of the first '-' in s (0 when there is none)
RECURSIVE FindDash(_, _)
FindDash(s, i) == IF i > Len(s) THEN 0 ELSE IF s[i] = Dash THEN i ELSE FindDash(s, i + 1)

\* year, month = month_str.split('-'); return int(year), int(month)
parse_month(month_str) ==
    LET d == FindDash(month_str, 1)
    IN  << IntOf(SubSeq(month_str, 1, d - 1)), IntOf(SubSeq(month_str, d + 1, Len(month_str))) >>

\* ------------------------------------------------- get_month_boundaries
\* characters of an ISO timestamp, as codes relative to '0'
Plus == 0 - 5
Colon == 10
CharT == 36
CharZ == 42

\* datetime(year, month, day, hour, minute, second, tzinfo=timezone.utc)
datetime(year, month, day, hour, minute, second) ==
    [year |-> year, month |-> month, day |-> day, hour |-> hour, minute |-> minute, second |-> second]

TwoDigits(n) == << n \div 10, n % 10 >>

\* dt.isoformat() of a datetime in UTC: "YYYY-MM-DDTHH:MM:SS+00:00"
isoformat(dt) ==
    MonthStr(dt.year, dt.month) \o << Dash >> \o TwoDigits(dt.day) \o << CharT >>
        \o TwoDigits(dt.hour) \o << Colon >> \o TwoDigits(dt.minute) \o << Colon >> \o TwoDigits(dt.second)
        \o << Plus, 0, 0, Colon, 0, 0 >>

\* s.replace(old, new)
RECURSIVE replace(_, _, _)
replace(s, old, new) ==
    IF Len(s) < Len(old) THEN s
    ELSE IF SubSeq(s, 1, Len(old)) = old
         THEN new \o replace(SubSeq(s, Len(old) + 1, Len(s)), old, new)
         ELSE << s[1] >> \o replace(SubSeq(s, 2, Len(s)), old, new)

\* an end boundary without the turn of the year
end_dtOff(year, month) == datetime(year, month + 1, 1, 0, 0, 0)

\* get_month_boundaries: the start of the next month
end_dt(year, month) ==
    IF month = 12 THEN datetime(year + 1, 1, 1, 0, 0, 0)
    ELSE datetime(year, month + 1, 1, 0, 0, 0)

\* get_month_boundaries(month_str): << start_iso, end_iso >>
get_month_boundaries(month_str) ==
    LET p == parse_month(month_str)
        year == p[1]
        month == p[2]
        start_dt == datetime(year, month, 1, 0, 0, 0)
    IN  << replace(isoformat(start_dt), << Plus, 0, 0, Colon, 0, 0 >>, << CharZ >>),
           replace(isoformat(end_dt(year, month)), << Plus, 0, 0, Colon, 0, 0 >>, << CharZ >>) >>

\* Python's string comparison a < b (lexicographic on character codes)
RECURSIVE StrLess(_, _)
StrLess(a, b) ==
    IF b = << >> THEN FALSE
    ELSE IF a = << >> THEN TRUE
    ELSE IF Head(a) # Head(b) THEN Head(a) < Head(b)
    ELSE StrLess(Tail(a), Tail(b))

\* x in lst
InList(x, lst) == \E i \in 1..Len(lst) : lst[i] = x

ListSet(lst) == { lst[i] : i \in 1..Len(lst) }

\* ------------------------------------------- generate_months_to_backup
\* a loop condition that lets the current month in
GenWhileOff(year, month, current_year, current_mon) ==
    (year < current_year) \/ (year = current_year /\ month <= current_mon)

\* the loop condition of generate_months_to_backup
GenWhile(year, month, current_year, current_mon) ==
    (year < current_year) \/ (year = current_year /\ month < current_mon)

\* a filter that forgets the completed months
NotCompletedOff(month_str, completed_months) == TRUE

\* generate_months_to_backup: month_str not in completed_months
NotCompleted(month_str, completed_months) == ~InList(month_str, completed_months)

RECURSIVE GenLoop(_, _, _, _, _, _)
GenLoop(year, month, current_year, current_mon, completed_months, months) ==
    IF GenWhile(year, month, current_year, current_mon)
    THEN LET month_str == MonthStr(year, month)
             months2 == IF NotCompleted(month_str, completed_months)
                        THEN Append(months, month_str) ELSE months
         IN  IF month = 12
             THEN GenLoop(year + 1, 1, current_year, current_mon, completed_months, months2)
             ELSE GenLoop(year, month + 1, current_year, current_mon, completed_months, months2)
    ELSE months

generate_months_to_backup(start_month, current_month, completed_months) ==
    LET s == parse_month(start_month)
        c == parse_month(current_month)
    IN  GenLoop(s[1], s[2], c[1], c[2], completed_months, << >>)

\* --------------------------------------------------------- configuration
\* Config.guilds: the enabled guilds in configuration order (startDate is
\* validated not to be in the future, throttleHours defaults to 0)
guilds ==
    << [guildId |-> "g1", guildName |-> "A", startDate |-> MonthStr(FirstYear, 11), throttleHours |-> 1],
       [guildId |-> "g2", guildName |-> "B", startDate |-> MonthStr(FirstYear, 12), throttleHours |-> 0] >>

NGuilds == Len(guilds)

\* wall clock at the first start: December of FirstYear, counted in months
InitYM == FirstYear * 12 + 11

\* a current month that is one month ahead
get_current_monthOff(ym) == MonthStr((ym + 1) \div 12, ((ym + 1) % 12) + 1)

\* get_current_month(): now.strftime('%Y-%m')
get_current_month(ym) == MonthStr(ym \div 12, (ym % 12) + 1)

\* month_dir = f'exports/{guild["guildName"]}/{year_str}/{month_num}'
MonthDir(guild, month_str) ==
    LET p == parse_month(month_str)
        s == MonthStr(p[1], p[2])
    IN  << guild.guildName, SubSeq(s, 1, 4), SubSeq(s, 6, 7) >>

\* ---------------------------------------------------------------- state
VARIABLES
    pc,                     \* position of the process ("idle": no process runs)
    gi,                     \* index of the guild of the for loop of export
    completed_months,       \* tracker._completed_months  {guildId: [months]}
    last_attempts,          \* tracker._last_attempts     {guildId: timestamp}
    now_timestamp,          \* export: now_timestamp of the current guild
    current_month,          \* export: current_month of the current guild
    months_to_backup,       \* export: months_to_backup of the current guild
    idx,                    \* export: position in months_to_backup (1-based)
    months_backed_up,
    months_failed,
    guilds_processed,
    guilds_skipped,
    total_months_backed_up,
    clock,                  \* wall clock: [tick, ym]
    metadata,               \* exports/metadata.json
    fsDirs,                 \* month directories that exist
    fsFiles,                \* month directories holding exported files
    fsMarkers,              \* month directories holding .complete
    run,                    \* history: processes started so far
    kills,                  \* history: processes killed so far
    faults,                 \* history: I/O errors so far
    log,                    \* history: outcome of every month of the current guild in this run
    okCalls,                \* history: exporter calls that returned 0 in this run
    completedBefore,        \* history: the current guild's completed list when it was enumerated
    attemptBefore,          \* history: the current guild's last attempt at its throttle check
    exportedOK,             \* history: <<guild, month>> whose exporter call returned 0
    redonePairs,            \* history: <<guild, month>> exported again after its exporter call had returned 0
    killedAt,               \* history: <<guild, month>> that was in flight when a process was killed
    markerFaults,           \* history: completion-marker writes that raised IOError
    invokedNow,             \* history: guild -> now_timestamp of this run, once the exporter ran for it
    invokedBefore,          \* history: guild -> now_timestamp of the latest earlier run that ran the exporter for it
    failedLast,             \* history: guild -> months that failed when it was last processed
    invokeStart,            \* history: the times at which the exporter was started for the guild in this run
    genStart, genCur, genDone, genOut, genPc,  \* inputs and output of the window calculator
    genBounds,              \* the boundaries of the months of genOut
    ledCall, ledN           \* the latest call made on a tracker on its own, and the number of calls

progVars == << pc, gi, completed_months, last_attempts, now_timestamp, current_month,
               months_to_backup, idx, months_backed_up, months_failed,
               guilds_processed, guilds_skipped, total_months_backed_up >>
loopVars == << gi, now_timestamp, current_month, months_to_backup, idx, months_backed_up,
               months_failed, guilds_processed, guilds_skipped, total_months_backed_up >>
envVars  == << clock, metadata, fsDirs, fsFiles, fsMarkers >>
histVars == << run, kills, faults, log, okCalls, completedBefore, attemptBefore, exportedOK,
               redonePairs, killedAt, markerFaults, invokedNow, invokedBefore, failedLast,
               invokeStart >>
genVars  == << genStart, genCur, genDone, genOut, genPc, genBounds, ledCall, ledN >>
vars     == << progVars, envVars, histVars, genVars >>

EmptyDict == << >>
NoStr == << >>

\* ------------------------------------------------- MonthlyBackupTracker
\* json.dump of a dictionary with string keys: the members of a JSON object,
\* one per key, each with the key and the value written for it
RECURSIVE json_dump(_)
json_dump(dict) ==
    IF DOMAIN dict = {} THEN << >>
    ELSE LET k == CHOOSE x \in DOMAIN dict : TRUE
         IN  << [key |-> k, value |-> dict[k]] >> \o json_dump([x \in DOMAIN dict \ {k} |-> dict[x]])

\* json.load of a JSON object: a dictionary, a later member replacing an
\* earlier one of the same key
RECURSIVE json_load(_)
json_load(members) ==
    IF members = << >> THEN << >>
    ELSE LET n == Len(members)
             d == json_load(SubSeq(members, 1, n - 1))
         IN  [x \in DOMAIN d \cup {members[n].key} |->
                 IF x = members[n].key THEN members[n].value ELSE d[x]]

NoMetadata == [state |-> "absent", completedMonthlyBackups |-> << >>, lastBackupAttempts |-> << >>]
CorruptMetadata == [state |-> "corrupt", completedMonthlyBackups |-> << >>, lastBackupAttempts |-> << >>]

\* __init__: the two dictionaries after loading metadata_path
LoadCompleted(md) == IF md.state = "json" THEN json_load(md.completedMonthlyBackups) ELSE EmptyDict
LoadAttempts(md) == IF md.state = "json" THEN json_load(md.lastBackupAttempts) ELSE EmptyDict

get_completed_months(comp, guild_id) == IF guild_id \in DOMAIN comp THEN comp[guild_id] ELSE << >>

\* a mark_month_completed that starts the guild's list again
mark_month_completedReset(comp, guild_id, month_str) ==
    IF guild_id \notin DOMAIN comp THEN comp @@ (guild_id :> << month_str >>)
    ELSE [comp EXCEPT ![guild_id] = << month_str >>]

\* a mark_month_completed without the membership test
mark_month_completedDup(comp, guild_id, month_str) ==
    LET c1 == IF guild_id \notin DOMAIN comp THEN comp @@ (guild_id :> << >>) ELSE comp
    IN  [c1 EXCEPT ![guild_id] = SortSeq(Append(@, month_str), StrLess)]

\* a mark_month_completed that creates the guild's list and appends nothing
mark_month_completedOff(comp, guild_id, month_str) ==
    IF guild_id \notin DOMAIN comp THEN comp @@ (guild_id :> << >>) ELSE comp

\* the in-memory effect of mark_month_completed
mark_month_completed(comp, guild_id, month_str) ==
    LET c1 == IF guild_id \notin DOMAIN comp THEN comp @@ (guild_id :> << >>) ELSE comp
    IN  IF ~InList(month_str, c1[guild_id])
        THEN [c1 EXCEPT ![guild_id] = SortSeq(Append(@, month_str), StrLess)]
        ELSE c1

\* the in-memory effect of set_last_attempt
set_last_attempt(last, guild_id, timestamp) ==
    IF guild_id \in DOMAIN last THEN [last EXCEPT ![guild_id] = timestamp]
    ELSE last @@ (guild_id :> timestamp)

SaveOutcomes == {"ok", "ioerror", "truncated"}

\* a _save_metadata that writes the completed months and no last attempts
save_metadataOff(md, comp, last, outcome) ==
    CASE outcome = "ok" -> [state |-> "json", completedMonthlyBackups |-> json_dump(comp),
                            lastBackupAttempts |-> << >>]
      [] outcome = "ioerror" -> md
      [] OTHER -> CorruptMetadata

\* _save_metadata: the file after the call. "ioerror": open(..., 'w') failed,
\* the file is as it was; "truncated": the write failed after truncation
save_metadata(md, comp, last, outcome) ==
    CASE outcome = "ok" -> [state |-> "json", completedMonthlyBackups |-> json_dump(comp),
                            lastBackupAttempts |-> json_dump(last)]
      [] outcome = "ioerror" -> md
      [] OTHER -> CorruptMetadata

\* ------------------------------------------------------------- helpers
Guild == guilds[gi]
Month == months_to_backup[idx]
Dir == MonthDir(Guild, Month)

\* the optional value of a dictionary entry, as a set with at most one element
Get(dict, key) == IF key \in DOMAIN dict THEN {dict[key]} ELSE {}

Put(dict, key, val) == IF key \in DOMAIN dict THEN [dict EXCEPT ![key] = val] ELSE dict @@ (key :> val)

MonthsWith(outcomes) == { log[i].m : i \in { j \in 1..Len(log) : log[j].r \in outcomes } }

\* the in-memory state of a process that does not run
Cleared ==
    /\ pc' = "idle"
    /\ gi' = 1
    /\ completed_months' = EmptyDict
    /\ last_attempts' = EmptyDict
    /\ now_timestamp' = 0
    /\ current_month' = NoStr
    /\ months_to_backup' = << >>
    /\ idx' = 0
    /\ months_backed_up' = 0
    /\ months_failed' = 0
    /\ guilds_processed' = 0
    /\ guilds_skipped' = 0
    /\ total_months_backed_up' = 0

\* the end of the process: what it did becomes the past
Past ==
    /\ invokedBefore' = [g \in DOMAIN invokedBefore \cup DOMAIN invokedNow |->
                            IF g \in DOMAIN invokedNow THEN invokedNow[g] ELSE invokedBefore[g]]
    /\ invokedNow' = EmptyDict
    /\ attemptBefore' = {}
    /\ completedBefore' = << >>
    /\ log' = << >>
    /\ okCalls' = 0
    /\ invokeStart' = {}

\* a `continue` that falls through to the enumeration of the same guild
NextGuildOff ==
    /\ gi' = gi /\ pc' = "enumerate"
    /\ now_timestamp' = clock.tick
    /\ current_month' = NoStr
    /\ months_to_backup' = << >>
    /\ idx' = 0
    /\ months_backed_up' = 0
    /\ months_failed' = 0
    /\ attemptBefore' = {}
    /\ completedBefore' = << >>
    /\ log' = << >>
    /\ invokeStart' = {}

\* `continue` / the end of the body of `for guild in self.config.guilds`
NextGuild ==
    /\ IF gi < NGuilds THEN gi' = gi + 1 /\ pc' = "throttle"
                       ELSE gi' = gi /\ pc' = "summary"
    /\ now_timestamp' = 0
    /\ current_month' = NoStr
    /\ months_to_backup' = << >>
    /\ idx' = 0
    /\ months_backed_up' = 0
    /\ months_failed' = 0
    /\ attemptBefore' = {}
    /\ completedBefore' = << >>
    /\ log' = << >>
    /\ invokeStart' = {}

\* a month loop that counts every month as backed up
NextMonthOff(success, outcome) ==
    /\ months_backed_up' = months_backed_up + 1
    /\ months_failed' = months_failed
    /\ log' = Append(log, [m |-> Month, r |-> outcome])
    /\ IF idx < Len(months_to_backup) THEN idx' = idx + 1 /\ pc' = "month"
                                      ELSE idx' = idx /\ pc' = "attempt"
    /\ UNCHANGED << gi, now_timestamp, current_month, months_to_backup,
                    guilds_processed, guilds_skipped, total_months_backed_up >>

\* a month loop that a failed month ends
NextMonthBreak(success, outcome) ==
    /\ months_backed_up' = IF success THEN months_backed_up + 1 ELSE months_backed_up
    /\ months_failed' = IF success THEN months_failed ELSE months_failed + 1
    /\ log' = Append(log, [m |-> Month, r |-> outcome])
    /\ IF idx < Len(months_to_backup) /\ success THEN idx' = idx + 1 /\ pc' = "month"
                                                  ELSE idx' = idx /\ pc' = "attempt"
    /\ UNCHANGED << gi, now_timestamp, current_month, months_to_backup,
                    guilds_processed, guilds_skipped, total_months_backed_up >>

\* the end of one iteration of `for idx, month_str in enumerate(months_to_backup, 1)`
NextMonth(success, outcome) ==
    /\ months_backed_up' = IF success THEN months_backed_up + 1 ELSE months_backed_up
    /\ months_failed' = IF success THEN months_failed ELSE months_failed + 1
    /\ log' = Append(log, [m |-> Month, r |-> outcome])
    /\ IF idx < Len(months_to_backup) THEN idx' = idx + 1 /\ pc' = "month"
                                      ELSE idx' = idx /\ pc' = "attempt"
    /\ UNCHANGED << gi, now_timestamp, current_month, months_to_backup,
                    guilds_processed, guilds_skipped, total_months_backed_up >>

\* ------------------------------------------------------------- actions
\* main: a new process loads the ledger and the configuration, export begins
Begin ==
    /\ pc = "idle"
    /\ completed_months' = LoadCompleted(metadata)
    /\ last_attempts' = LoadAttempts(metadata)
    /\ pc' = "throttle"
    /\ UNCHANGED loopVars
    /\ UNCHANGED << envVars, genVars, kills, faults, log, okCalls, completedBefore,
                    attemptBefore, exportedOK, redonePairs, killedAt, markerFaults, invokedNow, invokedBefore, failedLast, invokeStart >>

\* the script is run, at most MaxRuns times
Start ==
    /\ run < MaxRuns
    /\ run' = run + 1
    /\ Begin

\* a throttle that also skips at exactly throttleHours
ThrottledOff(now, last_attempt, guild) ==
    \E t \in last_attempt : (now - t) <= guild.throttleHours * TicksPerHour

\* a throttle with the comparison turned around
ThrottledRev(now, last_attempt, guild) ==
    \E t \in last_attempt : (now - t) > guild.throttleHours * TicksPerHour

\* export: last_attempt is not None and hours_since_last < guild['throttleHours']
Throttled(now, last_attempt, guild) ==
    \E t \in last_attempt : (now - t) < guild.throttleHours * TicksPerHour

\* export: the throttle check of one guild
ThrottleCheck ==
    /\ pc = "throttle"
    /\ IF Throttled(clock.tick, Get(last_attempts, Guild.guildId), Guild)
       THEN /\ guilds_skipped' = guilds_skipped + 1
            /\ NextGuild
       ELSE /\ now_timestamp' = clock.tick
            /\ attemptBefore' = Get(last_attempts, Guild.guildId)
            /\ pc' = "enumerate"
            /\ UNCHANGED << gi, guilds_skipped, current_month, months_to_backup, idx,
                            months_backed_up, months_failed, completedBefore, log, invokeStart >>
    /\ UNCHANGED << completed_months, last_attempts, guilds_processed, total_months_backed_up >>
    /\ UNCHANGED << envVars, genVars, run, kills, faults, okCalls, exportedOK, redonePairs, killedAt, markerFaults,
                    invokedNow, invokedBefore, failedLast >>

\* export: the months to back up of one guild
Enumerate ==
    /\ pc = "enumerate"
    /\ current_month' = get_current_month(clock.ym)
    /\ months_to_backup' = generate_months_to_backup(Guild.startDate, current_month',
                               get_completed_months(completed_months, Guild.guildId))
    /\ completedBefore' = get_completed_months(completed_months, Guild.guildId)
    /\ months_backed_up' = 0
    /\ months_failed' = 0
    /\ IF months_to_backup' = << >>
       THEN idx' = 0 /\ pc' = "guilddone"
       ELSE idx' = 1 /\ pc' = "month"
    /\ UNCHANGED << gi, completed_months, last_attempts, now_timestamp, guilds_processed,
                    guilds_skipped, total_months_backed_up >>
    /\ UNCHANGED << envVars, genVars, run, kills, faults, log, okCalls, attemptBefore,
                    exportedOK, redonePairs, killedAt, markerFaults, invokedNow, invokedBefore, failedLast, invokeStart >>

\* a marker check that never finds the marker
marker_existsOff(dir, markers) == FALSE

\* a marker check that looks in the guild's directory, not the month's
marker_existsGuild(dir, markers) == \E d \in markers : d[1] = dir[1]

\* _export_month: os.path.exists(completion_marker)
marker_exists(dir, markers) == dir \in markers

\* module constant DRY_RUN
DRY_RUN == FALSE

\* the I/O outcomes the environment may still choose
Outcomes == IF faults < MaxFaults THEN SaveOutcomes ELSE {"ok"}
Fault(outcome) == faults' = IF outcome = "ok" THEN faults ELSE faults + 1

\* _export_month up to the start of the exporter: the completion marker is
\* looked up, the month directory is created
Reconcile ==
    /\ pc = "month"
    /\ failedLast' = IF idx = 1 THEN Put(failedLast, gi, {}) ELSE failedLast
    /\ IF marker_exists(Dir, fsMarkers)
       THEN \E o \in Outcomes :
            /\ completed_months' = mark_month_completed(completed_months, Guild.guildId, Month)
            /\ metadata' = save_metadata(metadata, completed_months', last_attempts, o)
            /\ Fault(o)
            /\ NextMonth(TRUE, "reconciled")
            /\ UNCHANGED << fsDirs, invokedNow, redonePairs, invokeStart >>
       ELSE \/ /\ Dir \notin fsDirs
               /\ faults < MaxFaults
               /\ faults' = faults + 1
               /\ NextMonth(FALSE, "mkdirfail")
               /\ UNCHANGED << completed_months, metadata, fsDirs, invokedNow, redonePairs, invokeStart >>
            \/ /\ fsDirs' = fsDirs \cup {Dir}
               /\ IF DRY_RUN
                  THEN /\ NextMonth(FALSE, "dryrun")
                       /\ UNCHANGED << invokedNow, redonePairs, invokeStart >>
                  ELSE /\ pc' = "invoke"
                       /\ invokedNow' = Put(invokedNow, gi, now_timestamp)
                       /\ invokeStart' = invokeStart \cup {clock.tick}
                       /\ redonePairs' = IF << gi, Month >> \in exportedOK THEN redonePairs \cup {<< gi, Month >>} ELSE redonePairs
                       /\ UNCHANGED << loopVars, log >>
               /\ UNCHANGED << completed_months, metadata, faults >>
    /\ UNCHANGED << last_attempts, clock, fsFiles, fsMarkers, genVars, run, kills, okCalls,
                    completedBefore, attemptBefore, exportedOK, invokedBefore, killedAt,
                    markerFaults >>

\* an exporter whose exit code is not looked at
ExporterReturnsAny ==
    /\ pc = "invoke"
    /\ \E return_code \in {0, 1} :
        /\ fsFiles' = fsFiles \cup {Dir}
        /\ exportedOK' = IF return_code = 0 THEN exportedOK \cup {<< gi, Month >>} ELSE exportedOK
        /\ okCalls' = IF return_code = 0 THEN okCalls + 1 ELSE okCalls
        /\ pc' = "mark"
        /\ UNCHANGED << loopVars, log, invokeStart >>
    /\ UNCHANGED << completed_months, last_attempts, clock, metadata, fsDirs, fsMarkers,
                    genVars, run, kills, faults, completedBefore, attemptBefore, redonePairs, killedAt, markerFaults,
                    invokedNow, invokedBefore, failedLast >>

\* subprocess.run returns: the exporter's exit code
ExporterReturns ==
    /\ pc = "invoke"
    /\ \E return_code \in {0, 1} :
        IF return_code = 0
        THEN /\ fsFiles' = fsFiles \cup {Dir}
             /\ exportedOK' = exportedOK \cup {<< gi, Month >>}
             /\ okCalls' = okCalls + 1
             /\ pc' = "mark"
             /\ UNCHANGED << loopVars, log, invokeStart >>
        ELSE /\ fsFiles' \in {fsFiles, fsFiles \cup {Dir}}
             /\ NextMonth(FALSE, "failed")
             /\ UNCHANGED << exportedOK, okCalls, invokeStart >>
    /\ UNCHANGED << completed_months, last_attempts, clock, metadata, fsDirs, fsMarkers,
                    genVars, run, kills, faults, completedBefore, attemptBefore, redonePairs, killedAt, markerFaults,
                    invokedNow, invokedBefore, failedLast >>

\* _export_month, return_code == 0: the month is marked completed in the ledger
MarkCompleted ==
    /\ pc = "mark"
    /\ \E o \in Outcomes :
        /\ completed_months' = mark_month_completed(completed_months, Guild.guildId, Month)
        /\ metadata' = save_metadata(metadata, completed_months', last_attempts, o)
        /\ Fault(o)
    /\ pc' = "marker"
    /\ UNCHANGED << loopVars, last_attempts >>
    /\ UNCHANGED << clock, fsDirs, fsFiles, fsMarkers, genVars, run, kills, log, okCalls,
                    completedBefore, attemptBefore, exportedOK, redonePairs, killedAt, markerFaults, invokedNow,
                    invokedBefore, failedLast, invokeStart >>

\* _export_month, return_code == 0: the completion marker is written (or the
\* write raises IOError, which is logged), the month is reported successful
WriteMarker ==
    /\ pc = "marker"
    /\ \/ /\ fsMarkers' = fsMarkers \cup {Dir}
          /\ UNCHANGED << faults, markerFaults >>
       \/ /\ faults < MaxFaults
          /\ faults' = faults + 1
          /\ markerFaults' = markerFaults + 1
          /\ UNCHANGED fsMarkers
    /\ NextMonth(TRUE, "exported")
    /\ UNCHANGED << completed_months, last_attempts, clock, metadata, fsDirs, fsFiles,
                    genVars, run, kills, okCalls, completedBefore, attemptBefore, exportedOK,
                    redonePairs, killedAt, invokedNow, invokedBefore, failedLast, invokeStart >>

\* a last attempt taken from the clock after the months
AttemptTimeEnd == clock.tick

\* export: the timestamp given to set_last_attempt
AttemptTime == now_timestamp

\* export: after the months of one guild, the last attempt is set
AttemptUpdate ==
    /\ pc = "attempt"
    /\ IF months_backed_up > 0
       THEN \E o \in Outcomes :
            /\ last_attempts' = set_last_attempt(last_attempts, Guild.guildId, AttemptTime)
            /\ metadata' = save_metadata(metadata, completed_months, last_attempts', o)
            /\ Fault(o)
            /\ total_months_backed_up' = total_months_backed_up + months_backed_up
       ELSE UNCHANGED << last_attempts, metadata, faults, total_months_backed_up >>
    /\ pc' = "guilddone"
    /\ UNCHANGED << gi, completed_months, now_timestamp, current_month, months_to_backup, idx,
                    months_backed_up, months_failed, guilds_processed, guilds_skipped >>
    /\ UNCHANGED << clock, fsDirs, fsFiles, fsMarkers, genVars, run, kills, log, okCalls,
                    completedBefore, attemptBefore, exportedOK, redonePairs, killedAt, markerFaults, invokedNow,
                    invokedBefore, failedLast, invokeStart >>

\* export: guilds_processed += 1, the loop goes to the next guild
FinishGuild ==
    /\ pc = "guilddone"
    /\ guilds_processed' = guilds_processed + 1
    /\ failedLast' = Put(failedLast, gi, MonthsWith({"failed", "mkdirfail", "dryrun"}))
    /\ NextGuild
    /\ UNCHANGED << completed_months, last_attempts, guilds_skipped, total_months_backed_up >>
    /\ UNCHANGED << envVars, genVars, run, kills, faults, okCalls, exportedOK, redonePairs, killedAt, markerFaults,
                    invokedNow, invokedBefore >>

\* export: the summary is logged; main returns and the process ends
Exit ==
    /\ pc = "summary"
    /\ Cleared
    /\ Past
    /\ UNCHANGED << envVars, genVars, run, kills, faults, exportedOK, redonePairs, killedAt, markerFaults, failedLast >>

\* the points at which the process is inside _save_metadata
SavePoint ==
    \/ pc = "mark"
    \/ pc = "month" /\ marker_exists(Dir, fsMarkers)
    \/ pc = "attempt" /\ months_backed_up > 0

\* the process is terminated from outside, at any point; a kill inside
\* _save_metadata may leave a truncated file, a kill while the exporter runs
\* may leave some of its files
Kill ==
    /\ pc # "idle"
    /\ kills < MaxKills
    /\ kills' = kills + 1
    /\ killedAt' = IF pc \in {"invoke", "mark", "marker"} THEN killedAt \cup {<< gi, Month >>} ELSE killedAt
    /\ metadata' \in {metadata} \cup (IF SavePoint THEN {CorruptMetadata} ELSE {})
    /\ fsFiles' \in {fsFiles} \cup (IF pc = "invoke" THEN {fsFiles \cup {Dir}} ELSE {})
    /\ failedLast' = IF pc = "month" /\ idx = 1 THEN Put(failedLast, gi, {}) ELSE failedLast
    /\ Cleared
    /\ Past
    /\ UNCHANGED << clock, fsDirs, fsMarkers, genVars, run, faults, exportedOK, redonePairs, markerFaults >>

\* time passes before the clock is read and while the exporter runs; a month
\* may begin
Tick ==
    /\ pc \in {"idle", "throttle", "enumerate", "invoke"}
    /\ clock.tick < MaxTick
    /\ \E ym \in {clock.ym, clock.ym + 1} :
        /\ ym - InitYM <= MaxMonthAdvance
        /\ clock' = [tick |-> clock.tick + 1, ym |-> ym]
    /\ UNCHANGED << progVars, metadata, fsDirs, fsFiles, fsMarkers, histVars, genVars >>

NoCall == [op |-> "none", guild_id |-> "", arg |-> 0, outcome |-> "ok", again |-> FALSE]

GenOff ==
    /\ genStart = NoStr /\ genCur = NoStr /\ genDone = << >> /\ genOut = << >> /\ genPc = "off"
    /\ genBounds = << >>
    /\ ledCall = NoCall /\ ledN = 0

IdleProcess ==
    /\ pc = "idle"
    /\ gi = 1
    /\ completed_months = EmptyDict
    /\ last_attempts = EmptyDict
    /\ now_timestamp = 0
    /\ current_month = NoStr
    /\ months_to_backup = << >>
    /\ idx = 0
    /\ months_backed_up = 0
    /\ months_failed = 0
    /\ guilds_processed = 0
    /\ guilds_skipped = 0
    /\ total_months_backed_up = 0

NoFiles ==
    /\ fsDirs = {}
    /\ fsFiles = {}
    /\ fsMarkers = {}

NoHistory ==
    /\ run = 0
    /\ kills = 0
    /\ faults = 0
    /\ log = << >>
    /\ okCalls = 0
    /\ completedBefore = << >>
    /\ attemptBefore = {}
    /\ exportedOK = {}
    /\ redonePairs = {}
    /\ killedAt = {}
    /\ markerFaults = 0
    /\ invokedNow = EmptyDict
    /\ invokedBefore = EmptyDict
    /\ failedLast = EmptyDict
    /\ invokeStart = {}

Idle ==
    /\ IdleProcess
    /\ clock = [tick |-> 0, ym |-> InitYM]
    /\ metadata = NoMetadata
    /\ NoFiles
    /\ NoHistory

Init == Idle /\ GenOff

Next ==
    \/ Start
    \/ ThrottleCheck
    \/ Enumerate
    \/ Reconcile
    \/ ExporterReturns
    \/ MarkCompleted
    \/ WriteMarker
    \/ AttemptUpdate
    \/ FinishGuild
    \/ Exit
    \/ Kill
    \/ Tick

Spec == Init /\ [][Next]_vars

\* ------------------------------ the window calculator on its own inputs
\* the month counted from year 0, and back
MonthIndex(month_str) == LET p == parse_month(month_str) IN p[1] * 12 + (p[2] - 1)
MonthOfIndex(i) == MonthStr(i \div 12, (i % 12) + 1)

GenMonths == { MonthOfIndex(InitYM - 2 + i) : i \in 0..GenSpan }

\* every month of BoundYears years
YearMonths == { MonthStr(FirstYear + y, m) : y \in 0..(BoundYears - 1), m \in 1..12 }

\* the sorted list of a set of month strings
RECURSIVE SortedList(_)
SortedList(S) ==
    IF S = {} THEN << >>
    ELSE LET least == CHOOSE x \in S : \A y \in S \ {x} : StrLess(x, y)
         IN  << least >> \o SortedList(S \ {least})

InitGen ==
    /\ Idle
    /\ genPc = "in"
    /\ \/ /\ genStart \in GenMonths
          /\ genCur \in GenMonths
          /\ genDone \in { SortedList(S) : S \in SUBSET GenMonths }
       \/ /\ genStart \in YearMonths
          /\ genCur \in YearMonths
          /\ genDone = << >>
    /\ genOut = << >>
    /\ genBounds = << >>
    /\ ledCall = NoCall /\ ledN = 0

GenApply ==
    /\ genPc = "in"
    /\ genOut' = generate_months_to_backup(genStart, genCur, genDone)
    /\ genPc' = "out"
    /\ UNCHANGED << progVars, envVars, histVars, genStart, genCur, genDone, genBounds, ledCall, ledN >>

\* _export_month: start_iso, end_iso = get_month_boundaries(month_str), for
\* each month of the list
BoundsApply ==
    /\ genPc = "out"
    /\ genBounds' = [i \in 1..Len(genOut) |-> get_month_boundaries(genOut[i])]
    /\ genPc' = "bounds"
    /\ UNCHANGED << progVars, envVars, histVars, genStart, genCur, genDone, genOut, ledCall, ledN >>

NextGen ==
    \/ GenApply
    \/ BoundsApply

SpecGen == InitGen /\ [][NextGen]_vars

\* ---------------------------------------- the tracker on its own inputs
LedgerMonths == { MonthOfIndex(InitYM + i) : i \in 1..LedgerSpan }
GuildIds == { guilds[i].guildId : i \in 1..NGuilds }

\* the dictionaries of completed months a tracker can hold: a sorted list
\* without duplicates for some of the guilds
LedgerDicts ==
    UNION { [D -> { SortedList(S) : S \in (SUBSET LedgerMonths) \ {{}} }] : D \in SUBSET GuildIds }

\* the stores a tracker can find: no file, a truncated file, a written file
LedgerStores ==
    {NoMetadata, CorruptMetadata}
        \cup { save_metadata(NoMetadata, comp, EmptyDict, "ok") : comp \in LedgerDicts }

InitLedger ==
    /\ IdleProcess
    /\ clock = [tick |-> 0, ym |-> InitYM]
    /\ metadata \in LedgerStores
    /\ NoFiles
    /\ NoHistory
    /\ genStart = NoStr /\ genCur = NoStr /\ genDone = << >> /\ genOut = << >> /\ genPc = "ledger"
    /\ genBounds = << >>
    /\ ledCall = NoCall /\ ledN = 0

Call(op, guild_id, arg, outcome) ==
    [op |-> op, guild_id |-> guild_id, arg |-> arg, outcome |-> outcome,
     again |-> ledCall.op = op /\ ledCall.guild_id = guild_id /\ ledCall.arg = arg]

LedgerFrame ==
    UNCHANGED << loopVars, clock, fsDirs, fsFiles, fsMarkers, histVars,
                 genStart, genCur, genDone, genOut, genPc, genBounds >>

\* MonthlyBackupTracker(metadata_path): a tracker is constructed on the store
LedgerLoad ==
    /\ genPc = "ledger"
    /\ pc' = "tracker"
    /\ completed_months' = LoadCompleted(metadata)
    /\ last_attempts' = LoadAttempts(metadata)
    /\ ledCall' = NoCall
    /\ UNCHANGED << metadata, ledN >>
    /\ LedgerFrame

\* tracker.mark_month_completed(guild_id, month_str)
LedgerMark ==
    /\ genPc = "ledger"
    /\ pc = "tracker"
    /\ ledN < MaxCalls
    /\ \E guild_id \in GuildIds, month_str \in LedgerMonths, o \in SaveOutcomes :
        /\ completed_months' = mark_month_completed(completed_months, guild_id, month_str)
        /\ metadata' = save_metadata(metadata, completed_months', last_attempts, o)
        /\ ledCall' = Call("mark", guild_id, month_str, o)
    /\ ledN' = ledN + 1
    /\ UNCHANGED << pc, last_attempts >>
    /\ LedgerFrame

\* tracker.set_last_attempt(guild_id, timestamp)
LedgerSetAttempt ==
    /\ genPc = "ledger"
    /\ pc = "tracker"
    /\ ledN < MaxCalls
    /\ \E guild_id \in GuildIds, timestamp \in 0..MaxTick, o \in SaveOutcomes :
        /\ last_attempts' = set_last_attempt(last_attempts, guild_id, timestamp)
        /\ metadata' = save_metadata(metadata, completed_months, last_attempts', o)
        /\ ledCall' = Call("attempt", guild_id, timestamp, o)
    /\ ledN' = ledN + 1
    /\ UNCHANGED << pc, completed_months >>
    /\ LedgerFrame

NextLedger ==
    \/ LedgerLoad
    \/ LedgerMark
    \/ LedgerSetAttempt

SpecLedger == InitLedger /\ [][NextLedger]_vars

\* ------------------------------------------------- runs repeated for ever
\* The script is run again and again (by a scheduler such as cron), the
\* environment fails no write and kills no process any more, and time is
\* kept relative to the present: once the clock has reached MaxTick, a tick
\* that passes between two runs makes every stored timestamp one tick older,
\* a timestamp MaxTick ticks old standing for every older one (the throttle
\* check reads only the difference, and no throttle interval exceeds MaxTick).
Older(t) == IF t > 0 THEN t - 1 ELSE 0

OlderStore(md) ==
    [md EXCEPT !.lastBackupAttempts =
        [i \in 1..Len(@) |-> [key |-> @[i].key, value |-> Older(@[i].value)]]]

\* time passes between two runs
Elapse ==
    /\ pc = "idle"
    /\ IF clock.tick < MaxTick
       THEN /\ clock' = [clock EXCEPT !.tick = @ + 1]
            /\ UNCHANGED << metadata, invokedBefore >>
       ELSE /\ metadata' = OlderStore(metadata)
            /\ invokedBefore' = [g \in DOMAIN invokedBefore |-> Older(invokedBefore[g])]
            /\ UNCHANGED clock
    /\ UNCHANGED << progVars, fsDirs, fsFiles, fsMarkers, genVars, run, kills, faults, log, okCalls,
                    completedBefore, attemptBefore, exportedOK, redonePairs, killedAt, markerFaults,
                    invokedNow, failedLast, invokeStart >>

\* the script is run once more
StartLive ==
    /\ UNCHANGED run
    /\ Begin

\* what earlier runs may have left: nothing; a marker of the first month of
\* the first guild with the ledger lost; that month in the ledger without
\* its marker; files of an interrupted export of that month
LiveFirst == MonthOfIndex(InitYM - 1)
LiveDir == MonthDir(guilds[1], LiveFirst)
LiveStarts ==
    { [metadata |-> NoMetadata, fsDirs |-> {}, fsFiles |-> {}, fsMarkers |-> {}, exportedOK |-> {}],
      [metadata |-> NoMetadata, fsDirs |-> {LiveDir}, fsFiles |-> {LiveDir}, fsMarkers |-> {}, exportedOK |-> {}] }
    \cup { [metadata |-> md, fsDirs |-> {LiveDir}, fsFiles |-> {LiveDir}, fsMarkers |-> {LiveDir},
            exportedOK |-> {<< 1, LiveFirst >>}] : md \in {NoMetadata, CorruptMetadata} }
    \cup { [metadata |-> save_metadata(NoMetadata, guilds[1].guildId :> << LiveFirst >>, EmptyDict, "ok"),
            fsDirs |-> {LiveDir}, fsFiles |-> {LiveDir}, fsMarkers |-> {}, exportedOK |-> {<< 1, LiveFirst >>}] }

InitLive ==
    /\ IdleProcess
    /\ clock = [tick |-> 0, ym |-> InitYM]
    /\ \E s \in LiveStarts :
          /\ metadata = s.metadata
          /\ fsDirs = s.fsDirs
          /\ fsFiles = s.fsFiles
          /\ fsMarkers = s.fsMarkers
          /\ exportedOK = s.exportedOK
    /\ run = 0
    /\ kills = MaxKills
    /\ faults = MaxFaults
    /\ log = << >>
    /\ okCalls = 0
    /\ completedBefore = << >>
    /\ attemptBefore = {}
    /\ redonePairs = {}
    /\ killedAt = {}
    /\ markerFaults = 0
    /\ invokedNow = EmptyDict
    /\ invokedBefore = EmptyDict
    /\ failedLast = EmptyDict
    /\ invokeStart = {}
    /\ GenOff

\* a step of the running process, or the start of the next one
ProcessStep ==
    \/ StartLive
    \/ ThrottleCheck
    \/ Enumerate
    \/ Reconcile
    \/ ExporterReturns
    \/ MarkCompleted
    \/ WriteMarker
    \/ AttemptUpdate
    \/ FinishGuild
    \/ Exit

NextLive ==
    \/ StartLive
    \/ ThrottleCheck
    \/ Enumerate
    \/ Reconcile
    \/ ExporterReturns
    \/ MarkCompleted
    \/ WriteMarker
    \/ AttemptUpdate
    \/ FinishGuild
    \/ Exit
    \/ Tick
    \/ Elapse

\* the exporter returns success for month m of guild i
ExportSucceeds(i, m) ==
    /\ pc = "invoke"
    /\ gi = i
    /\ Month = m
    /\ ExporterReturns
    /\ pc' = "mark"

\* the months a guild can have pending
LiveMonths == { MonthOfIndex(InitYM - 1 + k) : k \in 0..MaxMonthAdvance }

\* runs are repeated and each one goes on to its end; time passes between
\* runs; every month's export succeeds at some retry
LiveFairness ==
    /\ WF_vars(ProcessStep)
    /\ SF_vars(Elapse)
    /\ \A i \in 1..NGuilds : \A m \in LiveMonths : SF_vars(ExportSucceeds(i, m))

SpecLive == InitLive /\ [][NextLive]_vars /\ LiveFairness

\* ================================================================ claims

\* C1: generate_months_to_backup returns exactly the months m with
\* start <= m < current that are not completed, in strictly ascending
\* (year, month) order without duplicates, December being followed by
\* January of the next year; the result is empty whenever start >= current.
C1_Pending ==
    genPc = "out" =>
        LET s == MonthIndex(genStart)
            c == MonthIndex(genCur)
        IN  /\ ListSet(genOut) = { MonthOfIndex(i) : i \in s..(c - 1) } \ ListSet(genDone)
            /\ \A i, j \in 1..Len(genOut) : i < j => MonthIndex(genOut[i]) < MonthIndex(genOut[j])
            /\ (s >= c => genOut = << >>)

\* a result that runs over the turn of the year and skips a completed month
C1_Witness ==
    /\ genPc = "out"
    /\ Len(genOut) >= 3
    /\ \E i \in 1..(Len(genOut) - 1) :
          /\ parse_month(genOut[i])[2] = 12
          /\ parse_month(genOut[i + 1]) = << parse_month(genOut[i])[1] + 1, 1 >>
    /\ \E m \in ListSet(genDone) :
          MonthIndex(genStart) < MonthIndex(m) /\ MonthIndex(m) < MonthIndex(genCur) - 1

\* ---------------------------------------------------------- vocabulary
LoopPcs == {"month", "invoke", "mark", "marker", "attempt", "guilddone"}
FlightPcs == {"invoke", "mark", "marker"}
FailedOutcomes == {"failed", "mkdirfail", "dryrun"}

CompletedSet == ListSet(get_completed_months(completed_months, Guild.guildId))
ThrottleTicks(g) == guilds[g].throttleHours * TicksPerHour
DirIndex(d) == IntOf(d[2]) * 12 + (IntOf(d[3]) - 1)

\* a month that failed when the guild was last processed is pending when the
\* guild is enumerated again
FailedRetried ==
    (pc = "month" /\ idx = 1 /\ gi \in DOMAIN failedLast) =>
        failedLast[gi] \subseteq ListSet(months_to_backup)

\* C2 as stated: after a non-throttled source is processed its completed set
\* is the completed set before the run plus exactly the pending months whose
\* export succeeded in this run; failed months stay unmarked and are pending
\* again in the next run.
C2_Original ==
    /\ pc = "guilddone" =>
          /\ CompletedSet = ListSet(completedBefore) \cup MonthsWith({"exported"})
          /\ MonthsWith(FailedOutcomes) \cap CompletedSet = {}
    /\ FailedRetried

\* C2 amended: the completed set after the run is the completed set before
\* it plus exactly the pending months whose export succeeded in this run or
\* whose completion marker already existed; failed months stay unmarked and
\* are pending again in the next run.
C2_Amended ==
    /\ pc = "guilddone" =>
          /\ CompletedSet = ListSet(completedBefore) \cup MonthsWith({"exported", "reconciled"})
          /\ MonthsWith(FailedOutcomes) \cap CompletedSet = {}
    /\ (pc = "month" /\ idx = 1 /\ gi \in DOMAIN failedLast) =>
          failedLast[gi] \cap ListSet(completedBefore) = {}
    /\ FailedRetried

\* a source processed with a failed month followed by a successful one
C2_Witness ==
    /\ pc = "guilddone"
    /\ Len(log) >= 2
    /\ log[1].r = "failed"
    /\ log[2].r = "exported"
    /\ CompletedSet = ListSet(completedBefore) \cup {log[2].m}

\* the month interrupted by a kill is, when its guild is enumerated again,
\* either recorded as completed or pending
InterruptedRetried ==
    pc \in LoopPcs =>
        \A p \in killedAt :
            p[1] = gi => InList(p[2], completedBefore) \/ InList(p[2], months_to_backup)

\* no exporter call for a month whose completion marker was written
MarkedSkipped == pc \in FlightPcs => Dir \notin fsMarkers

C4_Step ==
    (pc = "throttle" /\ pc' # "idle" /\ clock' = clock) =>
        LET last == Get(last_attempts, Guild.guildId)
            skipped == guilds_skipped' = guilds_skipped + 1
            tooSoon == last # {} /\ \A t \in last : clock.tick - t < ThrottleTicks(gi)
        IN  /\ skipped <=> tooSoon
            /\ ~skipped <=> (pc' = "enumerate" /\ gi' = gi /\ guilds_skipped' = guilds_skipped)
            /\ (last = {} \/ Guild.throttleHours = 0) => ~skipped

\* C4: in the throttle check a source is skipped if and only if it has a
\* recorded last attempt and the hours elapsed since it are strictly less
\* than its throttleHours; with no last attempt, with elapsed hours equal to
\* or above throttleHours, or with throttleHours = 0 it goes on to enumeration.
C4_Throttle == [][C4_Step]_vars

\* one source was skipped and the next one, with throttleHours = 0 and a
\* recorded last attempt, goes on
C4_Witness ==
    /\ guilds_skipped = 1
    /\ pc = "enumerate"
    /\ Guild.throttleHours = 0
    /\ attemptBefore # {}

C5_StepOriginal ==
    (pc = "month" /\ pc' # "idle") =>
        ((pc' = "invoke") <=> (Dir \notin fsMarkers))

\* C5 as stated: for every pending month processed the exporter is invoked
\* if and only if no completion marker exists in the month's directory.
C5_Original == [][C5_StepOriginal]_vars

C5_StepAmended ==
    (pc = "month" /\ pc' # "idle") =>
        LET d == Dir
            m == Month
        IN  /\ (pc' = "invoke") <=> (d \notin fsMarkers /\ d \in fsDirs')
            /\ d \in fsMarkers =>
                  /\ InList(m, get_completed_months(completed_months', Guild.guildId))
                  /\ months_backed_up' = months_backed_up + 1
            /\ (d \notin fsMarkers /\ d \notin fsDirs') =>
                  /\ months_failed' = months_failed + 1
                  /\ UNCHANGED << completed_months, metadata, fsMarkers >>

\* C5 amended: the exporter is invoked if and only if no completion marker
\* exists in the month's directory and that directory exists or could be
\* created (a directory-creation failure fails the month without an exporter
\* call); when the marker exists the exporter is not invoked and the month is
\* in the source's completed set afterwards, even if the ledger had been lost.
C5_Amended == [][C5_StepAmended]_vars

\* a month was found complete by its marker although the ledger did not hold it
C5_Witness ==
    /\ pc \in LoopPcs
    /\ \E i \in 1..Len(log) :
          /\ log[i].r = "reconciled"
          /\ ~InList(log[i].m, completedBefore)
          /\ log[i].m \in CompletedSet

\* C6: when export finishes processing a source, its lastAttempt has been
\* changed (to the timestamp of this run) if and only if at least one month's
\* export succeeded in this run; otherwise it is exactly as it was.
C6_Claim ==
    pc = "guilddone" =>
        LET cur == Get(last_attempts, Guild.guildId)
        IN  /\ MonthsWith({"exported"}) # {} => cur = {now_timestamp}
            /\ MonthsWith({"exported"}) = {} => cur = attemptBefore

\* C7 as stated: whenever the exporter is invoked for a source in two
\* different runs, the start times of the two runs are at least throttleHours
\* apart.
C7_Original ==
    \A g \in DOMAIN invokedNow \cap DOMAIN invokedBefore :
        invokedNow[g] - invokedBefore[g] >= ThrottleTicks(g)

\* C7 amended: whenever the exporter is invoked for a source in a run whose
\* ledger records a last attempt for it, the start time of that run is at
\* least throttleHours after the recorded last attempt (an earlier run that
\* recorded none, because no month succeeded or the record was lost, does not
\* delay the next one).
C7_Amended ==
    pc \in FlightPcs =>
        /\ gi \in DOMAIN invokedNow /\ invokedNow[gi] = now_timestamp
        /\ \A t \in attemptBefore : now_timestamp - t >= ThrottleTicks(gi)

\* the exporter runs for a throttled source again, throttleHours after the
\* attempt the ledger records
C7_Witness ==
    /\ pc = "invoke"
    /\ Guild.throttleHours > 0
    /\ gi \in DOMAIN invokedBefore
    /\ attemptBefore = {invokedBefore[gi]}
    /\ now_timestamp - invokedBefore[gi] = ThrottleTicks(gi)

\* C8: at the end of export the total-months counter equals the number of
\* (source, month) pairs for which the exporter was invoked and reported
\* success in this run; a month skipped by its marker does not increase it.
C8_Claim == pc = "summary" => total_months_backed_up = okCalls

\* C9: a month the ledger records as completed, whose marker is absent, is
\* treated as complete: in a run that loaded that ledger it is not pending and
\* the exporter is not invoked for it.
C9_LedgerWins ==
    pc \in LoopPcs =>
        /\ \A m \in ListSet(completedBefore) : ~InList(m, months_to_backup)
        /\ pc \in FlightPcs => ~InList(Month, completedBefore)

\* the exporter runs for another month of a source while a month the loaded
\* ledger holds has no marker
C9_Witness ==
    /\ pc = "invoke"
    /\ \E m \in ListSet(completedBefore) :
          /\ MonthDir(Guild, m) \notin fsMarkers
          /\ << gi, m >> \in exportedOK
          /\ MonthIndex(m) < MonthIndex(Month)

\* C10: the current month is never attempted: the pending months of a source
\* lie between its startMonth and the month before the current month read at
\* its enumeration, so no month equal to or later than the current month is
\* exported, marked completed or given a marker.
C10_NeverCurrent ==
    /\ pc \in LoopPcs =>
          /\ MonthIndex(current_month) <= clock.ym
          /\ \A i \in 1..Len(months_to_backup) :
                /\ MonthIndex(Guild.startDate) <= MonthIndex(months_to_backup[i])
                /\ MonthIndex(months_to_backup[i]) < MonthIndex(current_month)
    /\ \A p \in exportedOK :
          /\ MonthIndex(guilds[p[1]].startDate) <= MonthIndex(p[2])
          /\ MonthIndex(p[2]) < clock.ym
    /\ \A d \in fsMarkers : DirIndex(d) < clock.ym
    /\ \A g \in DOMAIN completed_months :
          \A m \in ListSet(completed_months[g]) : MonthIndex(m) < clock.ym
    /\ \A g \in DOMAIN LoadCompleted(metadata) :
          \A m \in ListSet(LoadCompleted(metadata)[g]) : MonthIndex(m) < clock.ym

\* the exporter runs for the last month before the current one
C10_Witness ==
    /\ pc = "invoke"
    /\ Len(months_to_backup) >= 2
    /\ MonthIndex(Month) = clock.ym - 1
    /\ MonthIndex(current_month) = clock.ym

\* ------------------------------------------------------- ledger contract
\* a step in which _save_metadata is called and writes the file
Persisted == SavePoint /\ pc' # "idle" /\ faults' = faults

\* C11: ledger round trip: whenever a mark_month_completed or a
\* set_last_attempt has persisted, a MonthlyBackupTracker constructed on the
\* store holds, for every guild, the completed months and the last attempt
\* that the tracker that wrote the store holds in memory.
C11_Step ==
    Persisted =>
        /\ LoadCompleted(metadata') = completed_months'
        /\ LoadAttempts(metadata') = last_attempts'
        /\ \A i \in 1..NGuilds :
              /\ get_completed_months(LoadCompleted(metadata'), guilds[i].guildId)
                    = get_completed_months(completed_months', guilds[i].guildId)
              /\ Get(LoadAttempts(metadata'), guilds[i].guildId) = Get(last_attempts', guilds[i].guildId)
C11_RoundTrip == [][C11_Step]_vars

\* the store holds two months of one guild, a month of the other and a last
\* attempt of each, written by the running process
C11_Witness ==
    /\ pc = "guilddone"
    /\ gi = NGuilds
    /\ faults = 0
    /\ \A i \in 1..NGuilds : guilds[i].guildId \in DOMAIN last_attempts
    /\ \E i \in 1..NGuilds : Len(get_completed_months(completed_months, guilds[i].guildId)) >= 2
    /\ \A i \in 1..NGuilds : Len(get_completed_months(completed_months, guilds[i].guildId)) >= 1
    /\ LoadCompleted(metadata) = completed_months
    /\ LoadAttempts(metadata) = last_attempts

NoDup(lst) == \A i, j \in 1..Len(lst) : lst[i] = lst[j] => i = j

\* C12: mark_month_completed is idempotent: a second call with the same guild
\* and month leaves the in-memory completed months as the first call left
\* them, and the store as the first call wrote it; no month is twice in a
\* guild's completed list, in memory or in the store.
C12_Step ==
    /\ \A g \in DOMAIN completed_months' : NoDup(completed_months'[g])
    /\ \A g \in DOMAIN LoadCompleted(metadata') : NoDup(LoadCompleted(metadata')[g])
    /\ (ledN' = ledN + 1 /\ ledCall'.op = "mark") =>
          /\ mark_month_completed(completed_months', ledCall'.guild_id, ledCall'.arg) = completed_months'
          /\ (ledCall'.again =>
                /\ completed_months' = completed_months
                /\ (ledCall.outcome = "ok" /\ ledCall'.outcome = "ok" => metadata' = metadata))
C12_Idempotent == [][C12_Step]_vars

\* the same month is marked a second time on a list that holds another month
\* as well, and both calls have written the store
C12_Witness ==
    /\ ledCall.op = "mark"
    /\ ledCall.again
    /\ ledCall.outcome = "ok"
    /\ Len(get_completed_months(completed_months, ledCall.guild_id)) >= 2
    /\ LoadCompleted(metadata) = completed_months

\* ------------------------------------------------------ month boundaries
\* "YYYY-MM-01T00:00:00Z" of the month counted i from year 0
FirstInstant(i) ==
    << (i \div 12000) % 10, (i \div 1200) % 10, (i \div 120) % 10, (i \div 12) % 10, Dash,
       ((i % 12) + 1) \div 10, ((i % 12) + 1) % 10, Dash, 0, 1, CharT,
       0, 0, Colon, 0, 0, Colon, 0, 0, CharZ >>

\* C13: get_month_boundaries returns as start the 1st of the month at
\* 00:00:00 UTC and as end the 1st of the following month at 00:00:00 UTC,
\* January of the next year following December; the end of a month is the
\* start of the month that generate_months_to_backup enumerates after it.
C13_Boundaries ==
    genPc = "bounds" =>
        /\ Len(genBounds) = Len(genOut)
        /\ \A i \in 1..Len(genOut) :
              /\ genBounds[i][1] = FirstInstant(MonthIndex(genOut[i]))
              /\ genBounds[i][2] = FirstInstant(MonthIndex(genOut[i]) + 1)
        /\ \A i \in 1..(Len(genOut) - 1) :
              (genDone = << >> \/ MonthIndex(genOut[i + 1]) = MonthIndex(genOut[i]) + 1)
                  => genBounds[i][2] = genBounds[i + 1][1]

\* the boundaries of a whole year of months and of the January after it
C13_Witness ==
    /\ genPc = "bounds"
    /\ genDone = << >>
    /\ Len(genOut) >= 13
    /\ \E i \in 1..(Len(genOut) - 1) :
          /\ parse_month(genOut[i])[2] = 12
          /\ genBounds[i][2] = genBounds[i + 1][1]
          /\ genBounds[i + 1][1] = FirstInstant((parse_month(genOut[i])[1] + 1) * 12)

\* ------------------------------------------------------- the month loop
\* C14: the months of the pending sequence of a guild are processed one at a
\* time, each exactly once, in ascending order; a failed export or a failed
\* directory creation ends neither the month loop nor the guild loop: the
\* later months and the later guilds are processed in the same run.
C14_Loop ==
    /\ pc \in LoopPcs =>
          /\ \A i, j \in 1..Len(months_to_backup) :
                i < j => MonthIndex(months_to_backup[i]) < MonthIndex(months_to_backup[j])
          /\ Len(log) <= Len(months_to_backup)
          /\ \A i \in 1..Len(log) : log[i].m = months_to_backup[i]
          /\ months_backed_up + months_failed = Len(log)
          /\ pc \in {"month"} \cup FlightPcs => idx \in 1..Len(months_to_backup) /\ Len(log) = idx - 1
          /\ pc \in {"attempt", "guilddone"} => Len(log) = Len(months_to_backup)
    /\ pc \in {"throttle", "enumerate"} \cup LoopPcs => guilds_processed + guilds_skipped = gi - 1
    /\ pc = "summary" => guilds_processed + guilds_skipped = NGuilds

\* the first month of the first guild failed, its second month was exported,
\* and the month of the second guild has been processed
C14_Witness ==
    /\ run = 1
    /\ gi = 2
    /\ pc = "attempt"
    /\ Len(log) = 1
    /\ 1 \in DOMAIN failedLast
    /\ MonthOfIndex(InitYM - 1) \in failedLast[1]
    /\ << 1, MonthOfIndex(InitYM) >> \in exportedOK

\* --------------------------------------------------- the last attempt
\* C15: the last attempt stored for a guild is the timestamp captured at the
\* start of the guild's processing (at its throttle check, before any of its
\* months is exported), not the time after its months: it is at most the
\* start time of every exporter invocation made for the guild in the run.
C15_Step ==
    /\ (pc = "throttle" /\ pc' = "enumerate") => now_timestamp' = clock.tick /\ invokeStart' = {}
    /\ (pc = "attempt" /\ pc' = "guilddone" /\ months_backed_up > 0) =>
          /\ Get(last_attempts', Guild.guildId) = {now_timestamp}
          /\ faults' = faults => Get(LoadAttempts(metadata'), Guild.guildId) = {now_timestamp}
          /\ \A t \in invokeStart : \A a \in Get(last_attempts', Guild.guildId) : a <= t
    /\ pc' \in LoopPcs => \A t \in invokeStart' : now_timestamp' <= t
C15_StartTime == [][C15_Step]_vars

\* a last attempt has been stored that is earlier than the start of an
\* exporter invocation of the guild, and earlier than the present time
C15_Witness ==
    /\ pc = "guilddone"
    /\ invokeStart # {}
    /\ Get(last_attempts, Guild.guildId) = {now_timestamp}
    /\ Get(LoadAttempts(metadata), Guild.guildId) = {now_timestamp}
    /\ \E t \in invokeStart : now_timestamp < t
    /\ now_timestamp < clock.tick

\* ------------------------------------------------------------ durability
\* the completed months a tracker constructed on the store md would hold
StoredMonths(md) ==
    UNION { { << g, m >> : m \in ListSet(LoadCompleted(md)[g]) } : g \in DOMAIN LoadCompleted(md) }

\* C16: the ledger is persisted on every mutation: when mark_month_completed
\* has returned for a month and its write succeeded the store contains the
\* month, and a kill of the process at any later point never makes a ledger
\* reloaded from the store lack a completion the store contained.
C16_Step ==
    /\ (pc \in {"mark", "month"} /\ Persisted /\ completed_months' # completed_months) =>
          << Guild.guildId, Month >> \in StoredMonths(metadata')
    /\ (pc # "idle" /\ pc' = "idle" /\ kills' = kills + 1) =>
          StoredMonths(metadata) \subseteq StoredMonths(metadata')
C16_Claim == [][C16_Step]_vars

\* ------------------------------------------------------ the throttle skip
\* C17: a guild skipped by the throttle is counted as skipped and nothing
\* else is done for it: the loop goes to the next guild (or to the summary)
\* without enumeration, reconciliation or exporter call, and the completed
\* months, the last attempts, the store, the directories and every
\* completion marker are as they were.
C17_Step ==
    (pc = "throttle" /\ pc' # "idle" /\ clock' = clock) =>
        LET last == Get(last_attempts, Guild.guildId)
            tooSoon == last # {} /\ \A t \in last : clock.tick - t < ThrottleTicks(gi)
        IN  tooSoon =>
              /\ guilds_skipped' = guilds_skipped + 1
              /\ guilds_processed' = guilds_processed
              /\ total_months_backed_up' = total_months_backed_up
              /\ IF gi < NGuilds THEN gi' = gi + 1 /\ pc' = "throttle" ELSE pc' = "summary"
              /\ months_to_backup' = << >>
              /\ log' = << >>
              /\ invokeStart' = {}
              /\ UNCHANGED << completed_months, last_attempts, metadata, fsDirs, fsFiles, fsMarkers,
                              okCalls, exportedOK, invokedNow, faults >>
C17_Skipped == [][C17_Step]_vars

\* the first guild, which has a marker and a stored last attempt, has just
\* been skipped
C17_Witness ==
    /\ guilds_skipped = 1
    /\ guilds_processed = 0
    /\ gi = 2
    /\ pc = "throttle"
    /\ fsMarkers # {}
    /\ guilds[1].guildId \in DOMAIN LoadAttempts(metadata)
    /\ guilds[1].guildId \in DOMAIN last_attempts

\* --------------------------------------------------- completion markers
\* a step that ends a month with the given outcomes
Ends(outcomes) == Len(log') = Len(log) + 1 /\ log'[Len(log')].r \in outcomes

\* C18: a completion marker is written only after the exporter succeeded:
\* from an output tree without markers, a marker exists for a guild and month
\* only if an exporter invocation for that guild and month returned success;
\* a failed exporter call, a failed directory creation or the dry-run path
\* creates none.
C18_Step ==
    /\ \A d \in fsMarkers' : \E p \in exportedOK' : MonthDir(guilds[p[1]], p[2]) = d
    /\ fsMarkers' # fsMarkers =>
          /\ pc = "marker"
          /\ << gi, Month >> \in exportedOK
          /\ fsMarkers' = fsMarkers \cup {Dir}
    /\ Ends(FailedOutcomes) => fsMarkers' = fsMarkers /\ Dir \notin fsMarkers'
C18_MarkerAfterSuccess == [][C18_Step]_vars

\* a guild's months are done: one failed and has files but no marker, one was
\* exported and has its marker
C18_Witness ==
    /\ pc = "guilddone"
    /\ \E i, j \in 1..Len(log) :
          /\ log[i].r = "failed"
          /\ MonthDir(Guild, log[i].m) \in fsFiles \ fsMarkers
          /\ log[j].r = "exported"
          /\ MonthDir(Guild, log[j].m) \in fsMarkers

\* ---------------------------------------------- directory creation failure
\* C19: when the directory of a month cannot be created, the month is
\* reported as failed: the exporter is not invoked, the month is not marked
\* completed in the ledger, no marker is written, and the month loop goes on
\* with the next pending month.
C19_Step ==
    (pc = "month" /\ pc' # "idle" /\ Dir \notin fsMarkers /\ Dir \notin fsDirs') =>
        /\ months_failed' = months_failed + 1
        /\ months_backed_up' = months_backed_up
        /\ pc' # "invoke"
        /\ IF idx < Len(months_to_backup) THEN pc' = "month" /\ idx' = idx + 1
                                          ELSE pc' = "attempt"
        /\ gi' = gi /\ months_to_backup' = months_to_backup
        /\ ~InList(Month, get_completed_months(completed_months', Guild.guildId))
        /\ ~InList(Month, get_completed_months(LoadCompleted(metadata'), Guild.guildId))
        /\ UNCHANGED << completed_months, last_attempts, metadata, fsMarkers, fsFiles, fsDirs,
                        okCalls, exportedOK, invokeStart, invokedNow >>
C19_MkdirFailure == [][C19_Step]_vars

\* the directory of the first month could not be created and the second
\* month has been exported
C19_Witness ==
    /\ pc = "guilddone"
    /\ Len(log) = 2
    /\ log[1].r = "mkdirfail"
    /\ log[2].r = "exported"
    /\ months_failed = 1
    /\ MonthDir(Guild, log[1].m) \notin fsDirs
    /\ ~InList(log[1].m, get_completed_months(completed_months, Guild.guildId))

\* ------------------------------------------------------ false completion
\* the months of dictionary comp are months for which the exporter has
\* returned success for a guild of that id (a completion marker exists only
\* for such a month)
Earned(comp, succeeded) ==
    \A g \in DOMAIN comp : \A m \in ListSet(comp[g]) :
        \E i \in 1..NGuilds : guilds[i].guildId = g /\ << i, m >> \in succeeded

\* C20: no false completion: from an empty ledger and an output tree without
\* markers, a month is in a guild's completed months (in memory or in the
\* store) only if the exporter returned success for that guild and month or
\* its completion marker existed when it was reconciled; a failed export
\* adds no month; within one process the completed months of a guild never
\* lose a month.
C20_Step ==
    /\ Earned(completed_months', exportedOK')
    /\ Earned(LoadCompleted(metadata'), exportedOK')
    /\ (pc = "month" /\ Ends({"reconciled"})) => Dir \in fsMarkers /\ << gi, Month >> \in exportedOK
    /\ Ends(FailedOutcomes) => UNCHANGED << completed_months, metadata >>
    /\ (pc # "idle" /\ pc' # "idle") =>
          \A g \in DOMAIN completed_months :
              /\ g \in DOMAIN completed_months'
              /\ ListSet(completed_months[g]) \subseteq ListSet(completed_months'[g])
C20_NoFalseCompletion == [][C20_Step]_vars

\* the completed months of a guild hold a month reconciled by its marker and
\* a month exported in this process, and the store holds them as well
C20_Witness ==
    /\ pc = "guilddone"
    /\ Len(log) = 2
    /\ log[1].r = "reconciled"
    /\ log[2].r = "exported"
    /\ CompletedSet = {log[1].m, log[2].m}
    /\ LoadCompleted(metadata) = completed_months

\* ------------------------------------------------------------ convergence
\* every month from the guild's startDate up to, not including, the current
\* month is in the guild's completed months in the store
Complete(i) ==
    \A k \in MonthIndex(guilds[i].startDate)..(clock.ym - 1) :
        InList(MonthOfIndex(k), get_completed_months(LoadCompleted(metadata), guilds[i].guildId))

Converged == \A i \in 1..NGuilds : Complete(i)

\* a run has enumerated guild i and found nothing pending
EmptyRun(i) == pc = "guilddone" /\ gi = i /\ months_to_backup = << >> /\ log = << >>

\* C21: convergence of repeated runs: when runs are repeated, the throttle
\* interval elapses between runs and every month's export succeeds at some
\* retry, then from some time on every month from each guild's startDate up
\* to, not including, the current month is in its completed months; from
\* then on no exporter is invoked (none runs and none is started), and again
\* and again a run enumerates the guild and finds no month pending.
C21_Converges ==
    /\ <>[]Converged
    /\ [](Converged => pc # "invoke")
    /\ [][Converged => pc' # "invoke"]_vars
    /\ \A i \in 1..NGuilds : []<>(Converged /\ EmptyRun(i))

\* after exports in earlier runs, a run finds nothing pending for the last
\* guild, every month of every guild being completed
C21_Witness ==
    /\ Converged
    /\ EmptyRun(NGuilds)
    /\ clock.ym = InitYM + MaxMonthAdvance
    /\ okCalls = 0
    /\ \A i \in 1..NGuilds : << i, MonthOfIndex(clock.ym - 1) >> \in exportedOK
    /\ \A i \in 1..NGuilds : guilds[i].guildId \in DOMAIN LoadAttempts(metadata)

====
